---------------------------- MODULE Spec2Model ----------------------------
(***************************************************************************)
(* TelcoTemp: the anomaly filter (data_processing.anomaly_detection), the  *)
(* hourly round (data_processing.process_data_round, main.                 *)
(* data_processing_loop, initialization.wait_for_next_hour) and the grid   *)
(* interpolator (interpolation.spatial_interpolation).                     *)
(*                                                                         *)
(* Numbers are exact: temperatures, elevations and uptimes are integers,   *)
(* coordinates are integers in units of 1/CoordUnitsPerDegree degree, and  *)
(* every comparison of a mean, a standard deviation or a distance is       *)
(* cross-multiplied so that no division is needed.  A NaN of the code (a   *)
(* z-score with an undefined or zero standard deviation, the uptime        *)
(* difference of a sensor's first record) is a value every comparison of   *)
(* which is false, as in IEEE arithmetic.                                  *)
(***************************************************************************)
EXTENDS Integers, Sequences, FiniteSets, TLC

VARIABLES
    df_in,      \* anomaly_detection: the batch passed in (a sequence of records)
    columns,    \* anomaly_detection: the columns the batch has
    params,     \* anomaly_detection: thresholds and combine_mode of the call
    apc,        \* anomaly_detection: "off" | "ready" | "returned" | "raised"
    out,        \* anomaly_detection: what the call computed
    rpc,        \* data_processing_loop: "off" | "call" | "in_round" | "wait" | "crashed"
    round,      \* the number of calls of process_data_round so far
    clock,      \* the wall clock, in ticks
    next_hour,  \* wait_for_next_hour: the hour boundary the last wait aimed at
    cur,        \* the round of the last call: its stage and what happened in it
    prev,       \* the round before it
    round_df,   \* process_data_round: the local df ("unbound" | "data" | "empty")
    ipc,        \* spatial_interpolation: "off" | "ready" | "returned" | "raised"
    interp_in,  \* spatial_interpolation: the arguments and what the fitted model does
    interp_out, \* spatial_interpolation: what the call computed
    gpc,        \* get_data: "off" | "loop" | "returned" | "raised"
    retry_count,\* get_data: the argument
    attempt,    \* get_data: the attempts started so far
    influx,     \* get_data: what the store does at each attempt
    df_final,   \* get_data: the local df_final ("unbound" | "data" | "empty")
    epc,        \* enrichment: "off" | "ready" | "metadata" | "returned" | "raised"
    enrich_in,  \* get_metadata, prepare_data: the frame, the store, the elevation arguments
    metadata,   \* what get_metadata returned
    enrich_out, \* what prepare_data computed
    rescale,    \* the affine map applied to the temperatures of df_in
    out_rescaled \* anomaly_detection: what the call on the rescaled batch computed

anomalyVars == <<df_in, columns, params, apc, out>>
roundVars == <<rpc, round, clock, next_hour, cur, prev, round_df>>
interpVars == <<ipc, interp_in, interp_out>>
getDataVars == <<gpc, retry_count, attempt, influx, df_final>>
enrichVars == <<epc, enrich_in, metadata, enrich_out>>
rescaleVars == <<rescale, out_rescaled>>

vars == <<df_in, columns, params, apc, out,
          rpc, round, clock, next_hour, cur, prev, round_df,
          ipc, interp_in, interp_out,
          gpc, retry_count, attempt, influx, df_final,
          epc, enrich_in, metadata, enrich_out,
          rescale, out_rescaled>>

-----------------------------------------------------------------------------
(* Bounds and program constants                                            *)

MaxTemp == 3                 \* temperatures are 0 or MaxTemp
MaxUptime == 1               \* uptime counters are 0..MaxUptime
CoordUnitsPerDegree == 10    \* one coordinate unit is 1/10 degree

KmPerDegree == 111           \* radius_km / 111
DefaultZThreshold == 2       \* z_threshold: float = 2.0
DefaultResidualThreshold == 6
DefaultMinNeighbors == 5
DefaultRadiusKm == 20

IPs == {"A", "B", "C"}
Times == {1, 2}
Temps == {0, MaxTemp}
Uptimes == 0..MaxUptime

AllColumns ==
    {"Time", "IP", "Uptime", "Temperature_MW", "Elevation", "Latitude", "Longitude"}

-----------------------------------------------------------------------------
(* Helpers on sequences                                                    *)

RECURSIVE SumSeq(_)
SumSeq(s) == IF s = <<>> THEN 0 ELSE Head(s) + SumSeq(Tail(s))

Abs(x) == IF x < 0 THEN -x ELSE x

CountTrue(s) == Cardinality({k \in DOMAIN s : s[k]})

-----------------------------------------------------------------------------
(* Stage 1: the uptime filter (lines 134-143)                              *)

IPOrder(ip) == CASE ip = "A" -> 1 [] ip = "B" -> 2 [] OTHER -> 3

\* the order of df.sort_values(["IP", "Time"]): IP first, then Time
KeyLess(a, b) ==
    \/ IPOrder(a.ip) < IPOrder(b.ip)
    \/ (a.ip = b.ip /\ a.time < b.time)

KeyEq(a, b) == a.ip = b.ip /\ a.time = b.time

\* position of row i after the (stable) sort
Rank(df, i) ==
    Cardinality({j \in DOMAIN df :
                   KeyLess(df[j], df[i]) \/ (KeyEq(df[j], df[i]) /\ j < i)}) + 1

\* faulty variant: the frame is not sorted before the differences are taken
sort_values_skipped(df) == df

sort_values(df) ==
    [k \in DOMAIN df |-> df[CHOOSE i \in DOMAIN df : Rank(df, i) = k]]

\* df.groupby("IP")["Uptime"].diff(): the difference to the previous row of the
\* same IP in the frame's order; NaN for the first row of each IP
uptime_diff(df) ==
    [k \in DOMAIN df |->
        LET before == {j \in 1..(k - 1) : df[j].ip = df[k].ip}
        IN  IF before = {}
            THEN [nan |-> TRUE, v |-> 0]
            ELSE LET p == CHOOSE j \in before : \A j2 \in before : j2 <= j
                 IN  [nan |-> FALSE, v |-> df[k].uptime - df[p].uptime]]

\* df.loc[df["uptime_diff"] < 0, "IP"].unique()
restarted(df) ==
    LET d == uptime_diff(df)
    IN  {df[k].ip : k \in {k \in DOMAIN df : ~d[k].nan /\ d[k].v < 0}}

IsKept(r, gone) == r.ip \notin gone

\* df[~df["IP"].isin(restarted)]
DropRestarted(df, gone) == SelectSeq(df, LAMBDA r : IsKept(r, gone))

\* faulty variant: removed is the number of rows kept, not of rows dropped
UptimeStage_removed_is_kept(df, cols) ==
    IF "Uptime" \in cols /\ "IP" \in cols
    THEN LET sorted == sort_values(df)
             gone   == restarted(sorted)
             kept   == DropRestarted(sorted, gone)
         IN  [df |-> kept, removed |-> Len(kept),
              restarts |-> Cardinality(gone)]
    ELSE [df |-> df, removed |-> 0, restarts |-> 0]

\* the whole stage: the frame it leaves, removed and restarts
UptimeStage(df, cols) ==
    IF "Uptime" \in cols /\ "IP" \in cols
    THEN LET sorted == sort_values(df)
             gone   == restarted(sorted)
             kept   == DropRestarted(sorted, gone)
         IN  [df |-> kept, removed |-> Len(sorted) - Len(kept),
              restarts |-> Cardinality(gone)]
    ELSE [df |-> df, removed |-> 0, restarts |-> 0]

-----------------------------------------------------------------------------
(* Stage 2: the required columns (lines 145-148)                           *)

RequiredColumns == <<"Temperature_MW", "Elevation", "Latitude", "Longitude">>

\* the first required column the frame lacks, "" when it has them all
MissingColumn(cols) ==
    LET miss == {k \in DOMAIN RequiredColumns : RequiredColumns[k] \notin cols}
    IN  IF miss = {} THEN ""
        ELSE RequiredColumns[CHOOSE k \in miss : \A k2 \in miss : k <= k2]

-----------------------------------------------------------------------------
(* Stage 3: the global z-score test (lines 150-162)                        *)

\* With n values xs of sum S, mean = S/n and std^2 = sum (x - mean)^2 / (n - 1)
\* (pandas' std, ddof = 1).  Scaled by n: dev(x) = n*x - S, and
\* n^2 * (n - 1) * std^2 = sum dev(x_j)^2 = ss.  z = (x - mean)/std, so
\* z^2 = dev(x)^2 * (n - 1) / ss.  It is NaN when n < 2 (std is NaN) and when
\* ss = 0 (0/0).
Stats(xs) ==
    LET n == Len(xs)
        S == SumSeq(xs)
    IN  [n |-> n, sum |-> S,
         ss |-> SumSeq([k \in DOMAIN xs |-> (n * xs[k] - S) * (n * xs[k] - S)])]

Dev(st, x) == st.n * x - st.sum

ZIsNaN(st) == st.n < 2 \/ st.ss = 0

\* faulty variant: the deviation from the mean not divided by the standard
\* deviation
AbsZGreater_not_standardized(st, x, num, den) ==
    /\ ~ZIsNaN(st)
    /\ Abs(Dev(st, x)) * den > num * st.n

\* |z(x)| > num/den
AbsZGreater(st, x, num, den) ==
    /\ ~ZIsNaN(st)
    /\ Dev(st, x) * Dev(st, x) * (st.n - 1) * den * den > num * num * st.ss

\* |z(x)| <= num/den
AbsZAtMost(st, x, num, den) ==
    /\ ~ZIsNaN(st)
    /\ Dev(st, x) * Dev(st, x) * (st.n - 1) * den * den <= num * num * st.ss

TempsOf(df) == [k \in DOMAIN df |-> df[k].temp]
ElevsOf(df) == [k \in DOMAIN df |-> df[k].elev]

\* faulty variant: the elevation is not looked at
global_anomaly_mask_temperature_only(df, p) ==
    LET t == Stats(TempsOf(df))
    IN  [k \in DOMAIN df |-> AbsZGreater(t, df[k].temp, p.z_num, p.z_den)]

\* (df["z_temp"].abs() > z_threshold) & (df["z_elev"].abs() <= z_threshold),
\* the means and standard deviations being those of df
global_anomaly_mask(df, p) ==
    LET t == Stats(TempsOf(df))
        e == Stats(ElevsOf(df))
    IN  [k \in DOMAIN df |->
            /\ AbsZGreater(t, df[k].temp, p.z_num, p.z_den)
            /\ AbsZAtMost(e, df[k].elev, p.z_num, p.z_den)]

-----------------------------------------------------------------------------
(* Stage 4: the local test (lines 164-185)                                 *)

DistSq(a, b) ==
    (a.lat - b.lat) * (a.lat - b.lat) + (a.lon - b.lon) * (a.lon - b.lon)

\* tree.query(..., distance_upper_bound=radius_km / 111) reports the points at a
\* distance below the bound: dist/CoordUnitsPerDegree < radius_km/111, squared
WithinBound(a, b, radius_km) ==
    KmPerDegree * KmPerDegree * DistSq(a, b)
        < radius_km * radius_km * CoordUnitsPerDegree * CoordUnitsPerDegree

\* indices[(indices != idx) & (dists != inf)]
neighbors(df, idx, radius_km) ==
    {j \in DOMAIN df : j /= idx /\ WithinBound(df[j], df[idx], radius_km)}

SumOver(df, S) == SumSeq([k \in DOMAIN df |-> IF k \in S THEN df[k].temp ELSE 0])

\* faulty variant: the record counted among its own neighbours
IsEvaluated_counting_self(df, idx, p) ==
    Cardinality(neighbors(df, idx, p.radius_km)) + 1 >= p.min_neighbors

IsEvaluated(df, idx, p) ==
    Cardinality(neighbors(df, idx, p.radius_km)) >= p.min_neighbors

\* faulty variant: a residual equal to the threshold flags (>= for >)
ResidualExceeds_inclusive(df, idx, p) ==
    LET nb == neighbors(df, idx, p.radius_km)
        c  == Cardinality(nb)
    IN  Abs(df[idx].temp * c - SumOver(df, nb)) >= p.residual_threshold * c

\* abs(temp - local_avg) > residual_threshold, with local_avg = sum / count
ResidualExceeds(df, idx, p) ==
    LET nb == neighbors(df, idx, p.radius_km)
        c  == Cardinality(nb)
    IN  Abs(df[idx].temp * c - SumOver(df, nb)) > p.residual_threshold * c

local_flags(df, p) ==
    [k \in DOMAIN df |-> IsEvaluated(df, k, p) /\ ResidualExceeds(df, k, p)]

unevaluated(df, p) == Cardinality({k \in DOMAIN df : ~IsEvaluated(df, k, p)})

-----------------------------------------------------------------------------
(* Stage 5: combination and removal (lines 187-199)                        *)

CombineModes == {"union", "intersection"}

\* faulty variant: the two modes exchanged
combined_mask_swapped(g, l, mode) ==
    [k \in DOMAIN g |->
        IF mode = "union" THEN g[k] /\ l[k] ELSE g[k] \/ l[k]]

\* faulty variant: 'union' as exclusive or (^ for |)
combined_mask_xor(g, l, mode) ==
    [k \in DOMAIN g |->
        IF mode = "union" THEN g[k] /= l[k] ELSE g[k] /\ l[k]]

combined_mask(g, l, mode) ==
    [k \in DOMAIN g |->
        IF mode = "union" THEN g[k] \/ l[k] ELSE g[k] /\ l[k]]

\* df[~combined_mask]
RemoveFlagged(df, mask) ==
    LET keep == {k \in DOMAIN df : ~mask[k]}
        RECURSIVE Pick(_)
        Pick(k) == IF k > Len(df) THEN <<>>
                   ELSE (IF k \in keep THEN <<df[k]>> ELSE <<>>) \o Pick(k + 1)
    IN  Pick(1)

-----------------------------------------------------------------------------
(* anomaly_detection as a whole (lines 132-215)                            *)

Raised(kind, what) ==
    [status |-> "raised", error |-> kind, what |-> what,
     temporal |-> <<>>, removed |-> 0, restarts |-> 0,
     g |-> <<>>, l |-> <<>>, combined |-> <<>>, clean |-> <<>>,
     num_global_anomalies |-> 0, total_local_anomalies |-> 0,
     unevaluated |-> 0, total_combined |-> 0]

anomaly_detection(df, cols, p) ==
    IF "Uptime" \in cols /\ "IP" \in cols /\ "Time" \notin cols
    THEN Raised("KeyError", "Time")            \* sort_values(["IP", "Time"])
    ELSE
    LET s1 == UptimeStage(df, cols)
        d  == s1.df
    IN  IF MissingColumn(cols) /= ""
        THEN Raised("KeyError", MissingColumn(cols))
        ELSE
        LET g == global_anomaly_mask(d, p)
            l == local_flags(d, p)
        IN  IF p.combine_mode \notin CombineModes
            THEN Raised("ValueError", "combine_mode")
            ELSE
            LET m == combined_mask(g, l, p.combine_mode)
            IN  [status |-> "returned", error |-> "", what |-> "",
                 temporal |-> d, removed |-> s1.removed, restarts |-> s1.restarts,
                 g |-> g, l |-> l, combined |-> m, clean |-> RemoveFlagged(d, m),
                 num_global_anomalies |-> CountTrue(g),
                 total_local_anomalies |-> CountTrue(l),
                 unevaluated |-> unevaluated(d, p),
                 total_combined |-> CountTrue(m)]

-----------------------------------------------------------------------------
(* The batches and calls the anomaly filter is run on                      *)

\* a sensor's site: the same latitude, longitude and elevation in all its
\* records (get_metadata looks them up by IP, prepare_data takes the elevation
\* at the site)
SiteTables ==
    {[ip \in IPs |->
        CASE ip = "A" -> [lat |-> 0, lon |-> 0, elev |-> 0]
          [] ip = "B" -> [lat |-> pos[1], lon |-> pos[2], elev |-> e]
          [] OTHER    -> [lat |-> 0, lon |-> 1, elev |-> 1]] :
      pos \in {<<1, 1>>, <<2, 0>>}, e \in {0, 1}}

\* (Time, IP) is unique in a batch (get_data pivots on it): a batch holds at
\* most one record per slot.  TimeMajor is get_data's order, by Time and then
\* IP; Scrambled has sensor A against its time order.
TimeMajor ==
    << <<1, "A">>, <<1, "B">>, <<1, "C">>, <<2, "A">>, <<2, "B">> >>
Scrambled ==
    << <<2, "A">>, <<1, "B">>, <<1, "C">>, <<1, "A">>, <<2, "B">> >>

Absent == <<>>
CellValues == {Absent} \cup (Uptimes \X Temps)
FewCellValues == {Absent, <<MaxUptime, 0>>, <<0, MaxTemp>>}

BuildBatch(order, cell, site) ==
    LET RECURSIVE Build(_)
        Build(k) ==
            IF k > Len(order) THEN <<>>
            ELSE (IF cell[k] = Absent THEN <<>>
                  ELSE << [ip |-> order[k][2], time |-> order[k][1],
                           uptime |-> cell[k][1], temp |-> cell[k][2],
                           elev |-> site[order[k][2]].elev,
                           lat |-> site[order[k][2]].lat,
                           lon |-> site[order[k][2]].lon] >>) \o Build(k + 1)
    IN  Build(1)

Call(mode, minN) ==
    [z_num |-> 1, z_den |-> 1, residual_threshold |-> 2, min_neighbors |-> minN,
     radius_km |-> DefaultRadiusKm, combine_mode |-> mode]

DefaultCall ==
    [z_num |-> DefaultZThreshold, z_den |-> 1,
     residual_threshold |-> DefaultResidualThreshold,
     min_neighbors |-> DefaultMinNeighbors,
     radius_km |-> DefaultRadiusKm, combine_mode |-> "union"]

\* calls on a batch that has every column, with a valid combine_mode
MainConfigs ==
    {[columns |-> AllColumns, params |-> Call(m, n)] :
        m \in CombineModes, n \in {1, 2}}

\* the default thresholds, an unknown combine_mode, and batches lacking columns
OtherConfigs ==
    {[columns |-> AllColumns, params |-> DefaultCall],
     [columns |-> AllColumns, params |-> Call("average", 1)],
     [columns |-> AllColumns \ {"Elevation"}, params |-> Call("average", 1)],
     [columns |-> AllColumns \ {"Uptime", "IP"}, params |-> Call("union", 1)],
     [columns |-> AllColumns \ {"Uptime", "Time"}, params |-> Call("union", 1)]}
    \cup {[columns |-> AllColumns \ {c}, params |-> Call("union", 1)] :
            c \in AllColumns}

NoOut == Raised("", "")

\* the loop is not running
NoRound ==
    [stage |-> "Idle", raised |-> FALSE, failed |-> "", outputs |-> {},
     recovered |-> {}, start |-> 0, boundary |-> 0, error_logged |-> FALSE,
     end_logged |-> FALSE]

\* what is remembered of a round once the next one is called
Closed(r) ==
    [stage |-> r.stage, raised |-> r.raised, outputs |-> r.outputs,
     boundary |-> r.boundary, error_logged |-> r.error_logged,
     end_logged |-> r.end_logged]

RoundOff ==
    /\ rpc = "off" /\ round = 0 /\ clock = 0 /\ next_hour = 0
    /\ cur = NoRound /\ prev = Closed(NoRound) /\ round_df = "unbound"

\* sensor C has one slot: its uptime is never compared, and is 0
NoInterpIn ==
    [rep |-> <<>>, df |-> <<>>, raster |-> <<>>, regression_model_type |-> "",
     fit |-> "", rk |-> <<>>]

NoInterpOut ==
    [status |-> "raised", error |-> "", steps |-> <<>>, grid_x |-> <<>>,
     grid_y |-> <<>>, mask |-> <<>>, grid_z |-> <<>>]

InterpOff == ipc = "off" /\ interp_in = NoInterpIn /\ interp_out = NoInterpOut

GetDataOff ==
    /\ gpc = "off" /\ retry_count = 0 /\ attempt = 0 /\ influx = <<>>
    /\ df_final = "unbound"

NoEnrichOut == [status |-> "raised", error |-> "", columns |-> {}, rows |-> <<>>]

EnrichOff ==
    /\ epc = "off" /\ enrich_in = <<>> /\ metadata = <<>>
    /\ enrich_out = NoEnrichOut

RescaleOff == rescale = <<>> /\ out_rescaled = NoOut

Cells ==
    {c \in [1..5 -> CellValues] : c[3] = Absent \/ c[3][1] = 0}

InitAnomaly ==
    /\ \/ \E cell \in Cells, site \in SiteTables, cfg \in MainConfigs :
             /\ df_in = BuildBatch(Scrambled, cell, site)
             /\ columns = cfg.columns
             /\ params = cfg.params
       \/ \E cell \in [1..5 -> FewCellValues],
             site \in SiteTables, cfg \in OtherConfigs :
             /\ df_in = BuildBatch(TimeMajor, cell, site)
             /\ columns = cfg.columns
             /\ params = cfg.params
    /\ apc = "ready"
    /\ out = NoOut
    /\ RoundOff
    /\ InterpOff
    /\ GetDataOff
    /\ EnrichOff
    /\ RescaleOff

CallAnomalyDetection ==
    /\ apc = "ready"
    /\ rescale = <<>>
    /\ out' = anomaly_detection(df_in, columns, params)
    /\ apc' = out'.status
    /\ UNCHANGED <<df_in, columns, params>>
    /\ UNCHANGED <<roundVars, interpVars, getDataVars, enrichVars, rescaleVars>>

NextAnomaly == CallAnomalyDetection

SpecAnomaly == InitAnomaly /\ [][NextAnomaly]_vars

-----------------------------------------------------------------------------
(* anomaly_detection on a batch and on the same batch with every           *)
(* temperature t replaced by a*t + b                                       *)

MaxScale == 2       \* a is 1..MaxScale
MaxShift == 1       \* b is -MaxShift..MaxShift

Rescaled(df, map) ==
    [k \in DOMAIN df |-> [df[k] EXCEPT !.temp = map.a * @ + map.b]]

\* four records of three sensors, every temperature of 0..MaxTemp
RescaleCells ==
    {c \in [1..5 -> {Absent} \cup ({0} \X (0..MaxTemp))] :
        c[5] = Absent /\ \A k \in 1..4 : c[k] # Absent}

RescaleCalls ==
    {[z_num |-> 1, z_den |-> d, residual_threshold |-> 2, min_neighbors |-> 1,
      radius_km |-> DefaultRadiusKm, combine_mode |-> "union"] : d \in {1, 2}}

InitRescale ==
    /\ \E cell \in RescaleCells, site \in SiteTables, call \in RescaleCalls :
          /\ site["B"].lat = 1
          /\ df_in = BuildBatch(TimeMajor, cell, site)
          /\ params = call
    /\ columns = AllColumns
    /\ rescale \in [a : 1..MaxScale, b : (-MaxShift)..MaxShift]
    /\ apc = "ready"
    /\ out = NoOut /\ out_rescaled = NoOut
    /\ RoundOff /\ InterpOff /\ GetDataOff /\ EnrichOff

CallAnomalyDetectionTwice ==
    /\ apc = "ready"
    /\ rescale # <<>>
    /\ out' = anomaly_detection(df_in, columns, params)
    /\ out_rescaled' = anomaly_detection(Rescaled(df_in, rescale), columns, params)
    /\ apc' = out'.status
    /\ UNCHANGED <<df_in, columns, params, rescale>>
    /\ UNCHANGED <<roundVars, interpVars, getDataVars, enrichVars>>

NextRescale == CallAnomalyDetectionTwice

SpecRescale == InitRescale /\ [][NextRescale]_vars

-----------------------------------------------------------------------------
(* The hourly loop: main.data_processing_loop, process_data_round and      *)
(* initialization.wait_for_next_hour.  The clock counts ticks, of which    *)
(* TicksPerSecond make a second and SecondsPerHour seconds an hour.        *)

TicksPerSecond == 2
SecondsPerHour == 3
MaxRounds == 3          \* calls of process_data_round looked at
MaxStageTicks == 2      \* the longest a stage that takes time takes
MaxOversleep == 1       \* sleep() returns this much late at most

TicksPerHour == TicksPerSecond * SecondsPerHour

OutputSteps == {"realtime_writer", "save_parameters", "map_plotting"}

\* the statements of the try block (lines 236-250)
TryBlock ==
    {"get_data", "get_metadata", "prepare_data", "collect_data_summary",
     "anomaly_detection", "temperature_predict", "spatial_interpolation",
     "realtime_writer", "save_parameters", "map_plotting"}

\* the stages that wait for a store or compute over the whole batch or grid
Durations(s) ==
    IF s \in {"get_data", "temperature_predict", "spatial_interpolation",
              "map_plotting"}
    THEN 0..MaxStageTicks ELSE {0}

AnomalyOff ==
    /\ df_in = <<>> /\ columns = {} /\ params = DefaultCall
    /\ apc = "off" /\ out = NoOut

\* the process starts at any time of the hour
InitRound ==
    /\ AnomalyOff
    /\ InterpOff
    /\ GetDataOff
    /\ EnrichOff
    /\ RescaleOff
    /\ rpc = "call" /\ round = 0 /\ clock \in 0..(TicksPerHour - 1)
    /\ next_hour = 0 /\ cur = NoRound /\ prev = Closed(NoRound) /\ round_df = "unbound"

\* faulty variant: the round handed to a thread of its own
AfterCall_in_thread == "wait"

\* main.py line 121: the loop itself runs the round and goes on when it returns
AfterCall == "in_round"

\* faulty variant: the output steps after the try block
InTryBlock_compute_only(s) == s \in TryBlock \ OutputSteps

\* lines 235-255: the statement is inside try ... except Exception
InTryBlock(s) == s \in TryBlock

\* process_data_round is called (lines 230-235)
LoopCall ==
    /\ rpc = "call" /\ round < MaxRounds
    /\ round' = round + 1
    /\ prev' = Closed(cur)
    /\ cur' = [stage |-> "get_data", raised |-> FALSE, failed |-> "",
               outputs |-> {}, recovered |-> {},
               start |-> clock, boundary |-> next_hour,
               error_logged |-> FALSE, end_logged |-> FALSE]
    /\ round_df' = "unbound"
    /\ rpc' = AfterCall
    /\ UNCHANGED <<clock, next_hour>>
    /\ UNCHANGED <<anomalyVars, interpVars, getDataVars, enrichVars, rescaleVars>>

InStage(s) == rpc = "in_round" /\ cur.stage = s

\* statement s returns after d ticks and the round goes on with nxt
Returns(s, nxt, d) ==
    /\ cur' = [cur EXCEPT !.stage = nxt,
                          !.outputs = IF s \in OutputSteps THEN @ \cup {s} ELSE @]
    /\ clock' = clock + d
    /\ rpc' = rpc

\* output step s fails in its database write, rolls back, logs and returns
\* (database_operations.py lines 164-169 and 218-220)
Recovers(s, nxt) ==
    /\ cur' = [cur EXCEPT !.stage = nxt,
                          !.outputs = @ \cup {s},
                          !.recovered = @ \cup {s}]
    /\ clock' = clock
    /\ rpc' = rpc

\* faulty variant: the exception is swallowed where it is raised and the
\* statement is run again
Raises_and_retries(s, d) ==
    /\ clock' = clock + d
    /\ cur' = [cur EXCEPT !.raised = TRUE, !.failed = s]
    /\ rpc' = rpc

\* statement s raises an Exception after d ticks
Raises(s, d) ==
    /\ clock' = clock + d
    /\ IF InTryBlock(s)
       THEN /\ cur' = [cur EXCEPT !.stage = "except", !.raised = TRUE, !.failed = s]
            /\ rpc' = rpc
       ELSE /\ cur' = [cur EXCEPT !.raised = TRUE, !.failed = s]
            /\ rpc' = "crashed"

RoundFrame == UNCHANGED <<round, next_hour, prev>> /\ UNCHANGED <<anomalyVars, interpVars, getDataVars, enrichVars, rescaleVars>>

\* df = get_data(): every failure is caught inside (data_extraction.py lines
\* 67-112), and after retry_count failures the frame is empty
GetData ==
    /\ InStage("get_data")
    /\ \E d \in Durations("get_data"), got \in {"data", "empty"} :
          /\ round_df' = got
          /\ Returns("get_data", "get_metadata", d)
    /\ RoundFrame

\* db_ops.get_metadata(df): no row, no query
GetMetadata ==
    /\ InStage("get_metadata")
    /\ \/ Returns("get_metadata", "prepare_data", 0)
       \/ round_df = "data" /\ Raises("get_metadata", 0)
    /\ UNCHANGED round_df
    /\ RoundFrame

\* prepare_data: an empty frame has no "Time" column (line 83)
PrepareData ==
    /\ InStage("prepare_data")
    /\ \/ round_df = "data" /\ Returns("prepare_data", "collect_data_summary", 0)
       \/ Raises("prepare_data", 0)
    /\ UNCHANGED round_df
    /\ RoundFrame

CollectDataSummary ==
    /\ InStage("collect_data_summary")
    /\ \/ Returns("collect_data_summary", "anomaly_detection", 0)
       \/ Raises("collect_data_summary", 0)
    /\ UNCHANGED round_df
    /\ RoundFrame

AnomalyDetection ==
    /\ InStage("anomaly_detection")
    /\ \/ Returns("anomaly_detection", "temperature_predict", 0)
       \/ Raises("anomaly_detection", 0)
    /\ UNCHANGED round_df
    /\ RoundFrame

TemperaturePredict ==
    /\ InStage("temperature_predict")
    /\ \E d \in Durations("temperature_predict") :
          \/ Returns("temperature_predict", "spatial_interpolation", d)
          \/ Raises("temperature_predict", d)
    /\ UNCHANGED round_df
    /\ RoundFrame

SpatialInterpolation ==
    /\ InStage("spatial_interpolation")
    /\ \E d \in Durations("spatial_interpolation") :
          \/ Returns("spatial_interpolation", "realtime_writer", d)
          \/ Raises("spatial_interpolation", d)
    /\ UNCHANGED round_df
    /\ RoundFrame

\* db_ops.realtime_writer: a failed insert is rolled back and logged inside
\* (lines 164-169); lines 138-140 are before its try
RealtimeWriter ==
    /\ InStage("realtime_writer")
    /\ \/ Returns("realtime_writer", "save_parameters", 0)
       \/ Recovers("realtime_writer", "save_parameters")
       \/ Raises("realtime_writer", 0)
    /\ UNCHANGED round_df
    /\ RoundFrame

\* db_ops.save_parameters: all of it is inside its own try (lines 181-220)
SaveParameters ==
    /\ InStage("save_parameters")
    /\ \/ Returns("save_parameters", "map_plotting", 0)
       \/ Recovers("save_parameters", "map_plotting")
    /\ UNCHANGED round_df
    /\ RoundFrame

MapPlotting ==
    /\ InStage("map_plotting")
    /\ \E d \in Durations("map_plotting") :
          \/ Returns("map_plotting", "finally", d)
          \/ Raises("map_plotting", d)
    /\ UNCHANGED round_df
    /\ RoundFrame

\* except Exception as e: backend_logger.error(...) (lines 252-255)
ExceptHandler ==
    /\ InStage("except")
    /\ cur' = [cur EXCEPT !.error_logged = TRUE, !.stage = "finally"]
    /\ UNCHANGED <<rpc, clock, round_df>>
    /\ RoundFrame

\* finally: if "df" in locals(): del df; gc.collect() (lines 257-260)
FinallyRelease ==
    /\ InStage("finally")
    /\ round_df' = "unbound"
    /\ cur' = [cur EXCEPT !.stage = "end_log"]
    /\ UNCHANGED <<rpc, clock>>
    /\ RoundFrame

\* "Calculation ended ..." is logged and process_data_round returns
\* (lines 262-263)
LogEnd ==
    /\ InStage("end_log")
    /\ cur' = [cur EXCEPT !.end_logged = TRUE, !.stage = "Idle"]
    /\ rpc' = "wait"
    /\ UNCHANGED <<clock, round_df>>
    /\ RoundFrame

\* (now + timedelta(hours=1)).replace(minute=0, second=0, microsecond=0)
NextHourAfter(now) == ((now \div TicksPerHour) + 1) * TicksPerHour

\* timedelta.seconds: the whole seconds of a difference of less than a day
TimedeltaSeconds(ticks) == ticks \div TicksPerSecond

\* wait_for_next_hour (initialization.py lines 39-41); sleep(n) returns after
\* n seconds or later
WaitForNextHour ==
    /\ rpc = "wait"
    /\ LET now == clock
           nh  == NextHourAfter(now)
       IN  /\ next_hour' = nh
           /\ \E late \in 0..MaxOversleep :
                 clock' = now + TimedeltaSeconds(nh - now) * TicksPerSecond + late
    /\ rpc' = "call"
    /\ UNCHANGED <<round, cur, prev, round_df>>
    /\ UNCHANGED <<anomalyVars, interpVars, getDataVars, enrichVars, rescaleVars>>

NextRound ==
    \/ LoopCall
    \/ GetData
    \/ GetMetadata
    \/ PrepareData
    \/ CollectDataSummary
    \/ AnomalyDetection
    \/ TemperaturePredict
    \/ SpatialInterpolation
    \/ RealtimeWriter
    \/ SaveParameters
    \/ MapPlotting
    \/ ExceptHandler
    \/ FinallyRelease
    \/ LogEnd
    \/ WaitForNextHour

SpecRound == InitRound /\ [][NextRound]_vars

\* the loop is the only thing its thread runs, and sleep() returns
FairSpecRound == SpecRound /\ WF_vars(NextRound)

-----------------------------------------------------------------------------
(* interpolation.spatial_interpolation and GeographicalProcessing.         *)
(* create_mask.  The grid has GridN points a side instead of 500.  A       *)
(* region is a sequence of polygons, a polygon a sequence of vertices with *)
(* integer coordinates.  Grid coordinates are kept times GridN - 1, so     *)
(* that the evenly spaced points of np.mgrid are integers; a vertex is     *)
(* scaled the same way before it is compared with a grid point.  A float   *)
(* that may be NaN is a record.                                            *)

GridN == 4      \* points a side of the grid
MaxCoef == 1    \* the fitted model's coefficients are 0..MaxCoef

GridScale == GridN - 1

NaN == [nan |-> TRUE, v |-> 0]
Num(x) == [nan |-> FALSE, v |-> x]

MinOf(S) == CHOOSE x \in S : \A y \in S : x <= y
MaxOf(S) == CHOOSE x \in S : \A y \in S : x >= y

\* rep.total_bounds: (minx, miny, maxx, maxy) over all geometries
total_bounds(rep) ==
    LET vs == UNION {{rep[g][k] : k \in DOMAIN rep[g]} : g \in DOMAIN rep}
    IN  <<MinOf({v[1] : v \in vs}), MinOf({v[2] : v \in vs}),
          MaxOf({v[1] : v \in vs}), MaxOf({v[2] : v \in vs})>>

GridShape == (0..(GridN - 1)) \X (0..(GridN - 1))

\* the i-th of GridN evenly spaced points from lo to hi, both included
Linspace(lo, hi, i) == lo * GridScale + i * (hi - lo)

\* np.mgrid[b0:b2:500j, b1:b3:500j] (lines 76-79): x varies along the first
\* axis, y along the second
mgrid(bounds) ==
    [grid_x |-> [c \in GridShape |-> Linspace(bounds[1], bounds[3], c[1])],
     grid_y |-> [c \in GridShape |-> Linspace(bounds[2], bounds[4], c[2])]]

Scaled(v) == <<v[1] * GridScale, v[2] * GridScale>>

Cross(a, b, p) == (b[1] - a[1]) * (p[2] - a[2]) - (b[2] - a[2]) * (p[1] - a[1])

Edges(poly) ==
    {<<Scaled(poly[k]), Scaled(poly[(k % Len(poly)) + 1])>> : k \in DOMAIN poly}

Between(u, w, x) == (u <= x /\ x <= w) \/ (w <= x /\ x <= u)

OnEdge(e, p) ==
    /\ Cross(e[1], e[2], p) = 0
    /\ Between(e[1][1], e[2][1], p[1])
    /\ Between(e[1][2], e[2][2], p[2])

\* the ray from p towards larger x crosses the edge
RayCrosses(e, p) ==
    LET a == e[1]
        b == e[2]
        dy == b[2] - a[2]
        lhs == (p[1] - a[1]) * dy
        rhs == (p[2] - a[2]) * (b[1] - a[1])
    IN  /\ (a[2] > p[2]) # (b[2] > p[2])
        /\ IF dy > 0 THEN lhs < rhs ELSE lhs > rhs

\* geometry.contains(Point): the point is in the interior, not on the boundary
contains(poly, p) ==
    /\ \A e \in Edges(poly) : ~OnEdge(e, p)
    /\ Cardinality({e \in Edges(poly) : RayCrosses(e, p)}) % 2 = 1

\* create_mask (geographical_processing.py lines 43-61)
create_mask(czech_rep, grid_x, grid_y) ==
    [c \in DOMAIN grid_x |->
        \E g \in DOMAIN czech_rep :
            contains(czech_rep[g], <<grid_x[c], grid_y[c]>>)]

\* a.ravel() of a 2-D array: row-major
ravel(a) == [k \in 1..(GridN * GridN) |-> a[<<(k - 1) \div GridN, (k - 1) % GridN>>]]

\* flat.reshape(shape)
reshape(flat, shape) == [c \in shape |-> flat[c[1] * GridN + c[2] + 1]]

\* faulty variant: the prediction kept inside the region's complement
np_where_inverted(cond, a, b) == [c \in DOMAIN cond |-> IF cond[c] THEN b ELSE a[c]]

\* np.where(cond, a, b) with an array a and a scalar b
np_where(cond, a, b) == [c \in DOMAIN cond |-> IF cond[c] THEN a[c] ELSE b]

\* lines 84-91: the rows with longitude, latitude and prediction all present
valid_points(df) ==
    SelectSeq(df, LAMBDA r : ~r.Longitude.nan /\ ~r.Latitude.nan
                             /\ ~r.Predicted_Temperature.nan)

\* the elevation raster of the inputs is flat and covers a rectangle;
\* griddata(..., method='linear') gives NaN outside the raster's hull
griddata(raster, p) ==
    IF /\ raster.box[1] * GridScale <= p[1] /\ p[1] <= raster.box[3] * GridScale
       /\ raster.box[2] * GridScale <= p[2] /\ p[2] <= raster.box[4] * GridScale
    THEN Num(raster.elevation) ELSE NaN

\* np.nanmean of values that are all equal where they are not NaN
nanmean(xs) ==
    IF \A k \in DOMAIN xs : xs[k].nan THEN NaN
    ELSE xs[CHOOSE k \in DOMAIN xs : ~xs[k].nan]

\* lines 98-99 and 151-152: NaN replaced by fill, only if there is a NaN
nan_to_num(xs, fill) == [k \in DOMAIN xs |-> IF xs[k].nan THEN fill ELSE xs[k]]

\* faulty variant: an else branch that falls back to a default model
RegressionModelTypes_with_fallback ==
    {"linear", "random_forest", "gradient_boosting", "svr", "kernel_svr", "unknown"}

\* faulty variant: the support-vector branch under another name
RegressionModelTypes_renamed ==
    {"linear", "random_forest", "gradient_boosting", "kernel_svr"}

\* lines 114-132: the branches of the if/elif chain
RegressionModelTypes == {"linear", "random_forest", "gradient_boosting", "svr"}

\* faulty variant: the model chosen only after the grid's elevation
StepsBeforeSelection_late ==
    <<"grid", "mask", "valid_points", "valid_elev", "grid_elev">>

\* lines 75-111: what has been computed when the if/elif chain is reached
StepsBeforeSelection == <<"grid", "mask", "valid_points", "valid_elev">>

\* rk.predict(p, x): trend of the covariate plus the residual field at the
\* point; the fitted model rk is linear in both
rk_predict(rk, p, x) ==
    [k \in DOMAIN x |-> Num(rk.c + rk.t * p[k].v + rk.a * x[k][1] + rk.b * x[k][2])]

InterpRaised(err, done) ==
    [status |-> "raised", error |-> err, steps |-> done, grid_x |-> <<>>,
     grid_y |-> <<>>, mask |-> <<>>, grid_z |-> <<>>]

\* spatial_interpolation (lines 20-174); an exception is logged and raised
\* again (lines 170-174)
spatial_interpolation(df, rep, raster, regression_model_type, fit, rk) ==
    LET bounds == total_bounds(rep)
        g == mgrid(bounds)
        mask == create_mask(rep, g.grid_x, g.grid_y)
        rows == valid_points(df)
        lon == [k \in DOMAIN rows |-> rows[k].Longitude.v]
        lat == [k \in DOMAIN rows |-> rows[k].Latitude.v]
        temp == [k \in DOMAIN rows |-> rows[k].Predicted_Temperature.v]
        elev0 == [k \in DOMAIN rows |-> griddata(raster, Scaled(<<lon[k], lat[k]>>))]
        valid_elev == nan_to_num(elev0, nanmean(elev0))
        before_select == StepsBeforeSelection
        before_fit == before_select \o <<"regression_model", "rk">>
        xy == [k \in 1..(GridN * GridN) |->
                  <<ravel(g.grid_x)[k], ravel(g.grid_y)[k]>>]
        shape == DOMAIN g.grid_x
        grid_elev0 == [c \in shape |-> griddata(raster, <<g.grid_x[c], g.grid_y[c]>>)]
        grid_elev == nan_to_num(grid_elev0, nanmean(valid_elev))
        pred == reshape(rk_predict(rk, ravel(grid_elev), xy), shape)
        grid_predicted_temp == np_where(reshape(ravel(mask), shape), pred, NaN)
    IN  IF ~(Len(lon) = Len(lat) /\ Len(lat) = Len(temp)
             /\ Len(temp) = Len(valid_elev))
        THEN InterpRaised("ValueError", before_select)
        ELSE IF regression_model_type \notin RegressionModelTypes
        THEN InterpRaised("ValueError", before_select)
        ELSE IF \/ Len(temp) = 0
                \/ \E k \in DOMAIN valid_elev : valid_elev[k].nan
                \/ fit = "raises"
        THEN InterpRaised("Exception", before_fit \o <<"fit">>)
        ELSE [status |-> "returned", error |-> "",
              steps |-> before_fit \o <<"fit", "grid_elev", "predict", "where">>,
              grid_x |-> g.grid_x, grid_y |-> g.grid_y, mask |-> mask,
              grid_z |-> grid_predicted_temp]

(* Inputs *)

Square == <<<<0, 0>>, <<6, 0>>, <<6, 6>>, <<0, 6>>>>
UpperTriangle == <<<<0, 0>>, <<6, 6>>, <<0, 6>>>>
LowerTriangle == <<<<0, 0>>, <<6, 0>>, <<6, 6>>>>
LShape == <<<<0, 0>>, <<6, 0>>, <<6, 3>>, <<3, 3>>, <<3, 6>>, <<0, 6>>>>
NearSquare == <<<<0, 0>>, <<3, 0>>, <<3, 3>>, <<0, 3>>>>
FarSquare == <<<<3, 3>>, <<6, 3>>, <<6, 6>>, <<3, 6>>>>

Regions ==
    {<<Square>>, <<UpperTriangle>>, <<LowerTriangle>>, <<LShape>>,
     <<NearSquare, FarSquare>>, <<FarSquare, LowerTriangle>>}

Sample(x, y, t) == [Longitude |-> x, Latitude |-> y, Predicted_Temperature |-> t]

SampleTables ==
    {<<>>,
     <<Sample(Num(1), Num(1), Num(5)), Sample(Num(4), Num(2), Num(7)),
       Sample(Num(2), Num(5), Num(6))>>,
     <<Sample(Num(1), Num(1), Num(5)), Sample(NaN, Num(2), Num(7)),
       Sample(Num(5), Num(5), NaN)>>}

Rasters ==
    {[box |-> <<0, 0, 6, 6>>, elevation |-> 1],
     [box |-> <<0, 0, 3, 6>>, elevation |-> 1],
     [box |-> <<4, 0, 6, 6>>, elevation |-> 2]}

Selectors == RegressionModelTypes \cup {"kernel_svr", "unknown"}

RkModels == [c : 0..MaxCoef, t : 0..MaxCoef, a : 0..MaxCoef, b : 0..MaxCoef]

InitInterp ==
    /\ interp_in \in [rep : Regions, df : SampleTables, raster : Rasters,
                      regression_model_type : Selectors,
                      fit : {"fits", "raises"}, rk : RkModels]
    /\ ipc = "ready"
    /\ interp_out = NoInterpOut
    /\ AnomalyOff
    /\ RoundOff
    /\ GetDataOff
    /\ EnrichOff
    /\ RescaleOff

CallSpatialInterpolation ==
    /\ ipc = "ready"
    /\ interp_out' = spatial_interpolation(interp_in.df, interp_in.rep,
                                           interp_in.raster,
                                           interp_in.regression_model_type,
                                           interp_in.fit, interp_in.rk)
    /\ ipc' = interp_out'.status
    /\ UNCHANGED interp_in
    /\ UNCHANGED <<anomalyVars, roundVars, getDataVars, enrichVars, rescaleVars>>

NextInterp == CallSpatialInterpolation

SpecInterp == InitInterp /\ [][NextInterp]_vars

-----------------------------------------------------------------------------
(* data_extraction.get_data: the retry loop                                *)

MaxRetry == 3       \* retry_count is 0..MaxRetry

\* what one pass through the try body meets: records that make the frame,
\* a result without records (pivot_table raises KeyError) or an exception of
\* the client
AttemptOutcomes == {"records", "no_records", "error"}

InitGetData ==
    /\ retry_count \in 0..MaxRetry
    /\ influx \in [1..(MaxRetry + 1) -> AttemptOutcomes]
    /\ gpc = "loop" /\ attempt = 0 /\ df_final = "unbound"
    /\ AnomalyOff /\ RoundOff /\ InterpOff /\ EnrichOff /\ RescaleOff

\* faulty variant: one attempt more than asked for
MoreAttempts_inclusive(done, n) == done <= n

\* for attempt in range(retry_count) (line 67)
MoreAttempts(done, n) == done < n

GetDataFrame ==
    UNCHANGED <<retry_count, influx>>
    /\ UNCHANGED <<anomalyVars, roundVars, interpVars, enrichVars, rescaleVars>>

\* one pass through the loop body (lines 68-111)
GetDataAttempt ==
    /\ gpc = "loop"
    /\ MoreAttempts(attempt, retry_count)
    /\ attempt' = attempt + 1
    /\ IF influx[attempt + 1] = "records"
       THEN df_final' = "data" /\ gpc' = "returned"
       ELSE df_final' = "empty" /\ gpc' = "loop"
    /\ GetDataFrame

\* return df_final after the loop (line 112); the name is unbound if the
\* loop body never ran
GetDataAfterLoop ==
    /\ gpc = "loop"
    /\ ~MoreAttempts(attempt, retry_count)
    /\ gpc' = IF df_final = "unbound" THEN "raised" ELSE "returned"
    /\ UNCHANGED <<attempt, df_final>>
    /\ GetDataFrame

NextGetData == GetDataAttempt \/ GetDataAfterLoop

SpecGetData == InitGetData /\ [][NextGetData]_vars

\* the call runs on while it has a step to take
FairSpecGetData == SpecGetData /\ WF_vars(NextGetData)

-----------------------------------------------------------------------------
(* DatabaseOperations.get_metadata and data_processing.prepare_data.  None *)
(* and NaN are both the missing value NaN: DataFrame.dropna treats them    *)
(* alike.  A row's Time is the hour it was measured in, counted from the   *)
(* start of the year.                                                      *)

MaxRows == 2        \* rows of the frame passed in

EnrichIPs == {"A", "B"}

FrameColumns == {"Time", "Unix", "Temperature_MW", "Signal", "Uptime", "IP", "sun"}

\* what the store answers for a sensor address:
\*   found       a link with the address on one of its sides, and its site
\*   no_link     no link row (lines 107-113)
\*   other_side  a link row whose two addresses both differ from the
\*               stripped address (lines 86-90); site_id None has no site
\*   no_site     a link, but no row for its site (lines 102-106)
\*   link_error, site_error   the first or the second query raises
LookupOutcomes ==
    {"found", "no_link", "other_side", "no_site", "link_error", "site_error"}

\* the tables cml_metadata.links and cml_metadata.sites
LinkOf(ip) == IF ip = "A" THEN [ID |-> 1, azimuth |-> 90, site |-> 1]
                          ELSE [ID |-> 2, azimuth |-> 180, site |-> 2]

SiteOf(site) == IF site = 1 THEN [X_coordinate |-> 14, Y_coordinate |-> 50]
                            ELSE [X_coordinate |-> 16, Y_coordinate |-> 49]

\* lines 58-119: what one row appends to azimuths, links, latitudes, longitudes
Lookup(ip, answer) ==
    LET link == LinkOf(ip)
        site == SiteOf(link.site)
    IN  CASE answer = "found" ->
               [Azimuth |-> Num(link.azimuth), Link_ID |-> Num(link.ID),
                Latitude |-> Num(site.Y_coordinate),
                Longitude |-> Num(site.X_coordinate)]
          [] answer = "no_site" ->
               [Azimuth |-> Num(link.azimuth), Link_ID |-> Num(link.ID),
                Latitude |-> NaN, Longitude |-> NaN]
          [] answer = "other_side" ->
               [Azimuth |-> NaN, Link_ID |-> Num(link.ID),
                Latitude |-> NaN, Longitude |-> NaN]
          [] OTHER ->
               [Azimuth |-> NaN, Link_ID |-> NaN, Latitude |-> NaN,
                Longitude |-> NaN]

\* lines 121-123: a query of the row raised; the except branch logs and
\* goes to the next row without appending
RowRaises(db, row) == db[row.IP] \in {"link_error", "site_error"}

\* get_metadata (lines 29-126)
get_metadata(df, db) ==
    LET appended == SelectSeq(df, LAMBDA row : ~RowRaises(db, row))
        entry(k) == Lookup(appended[k].IP, db[appended[k].IP])
    IN  [latitudes |-> [k \in DOMAIN appended |-> entry(k).Latitude],
         longitudes |-> [k \in DOMAIN appended |-> entry(k).Longitude],
         azimuths |-> [k \in DOMAIN appended |-> entry(k).Azimuth],
         links |-> [k \in DOMAIN appended |-> entry(k).Link_ID]]

EnrichRaised(err) == [status |-> "raised", error |-> err, columns |-> {}, rows |-> <<>>]

\* the row has a value in every column; Time and IP are the index of the
\* pivot table and always there
NoneMissing(row) == \A f \in DOMAIN row \ {"Time", "IP"} : ~row[f].nan

\* the row with the columns of extra added or replaced
WithColumns(row, extra) ==
    [f \in DOMAIN row \cup DOMAIN extra |->
        IF f \in DOMAIN extra THEN extra[f] ELSE row[f]]

\* faulty variant: only the measurements are looked at
dropna_measurements(rows) == SelectSeq(rows, LAMBDA row : ~row.Temperature_MW.nan)

\* df.dropna() (line 81): the rows with no missing value in any column
dropna(rows) == SelectSeq(rows, NoneMissing)

\* line 91
ElevationSupplied(elevation_data, lon_elev, lat_elev) ==
    elevation_data # "None" /\ lon_elev # "None" /\ lat_elev # "None"

\* griddata(..., method="nearest") on the elevation raster: the raster of the
\* inputs rises by one for each degree of longitude
NearestElevation(lon, lat) == Num(lon.v)

\* prepare_data (lines 45-103); assigning a list whose length is not the
\* frame's raises ValueError, and a frame without the column Time raises
\* KeyError at line 84
prepare_data(df, cols, latitudes, longitudes, azimuths, links, elevation_data, lon_elev, lat_elev) ==
    IF \E l \in {latitudes, longitudes, azimuths, links} : Len(l) # Len(df)
    THEN EnrichRaised("ValueError")
    ELSE LET attached == [k \in DOMAIN df |->
                            WithColumns(df[k],
                                [Azimuth |-> azimuths[k], Latitude |-> latitudes[k],
                                 Longitude |-> longitudes[k], Link_ID |-> links[k]])]
             kept == dropna(attached)
             timed == [k \in DOMAIN kept |->
                         WithColumns(kept[k],
                             [Hour |-> kept[k].Time % 24,
                              Day |-> (kept[k].Time \div 24) + 1])]
             cols1 == cols \cup {"Azimuth", "Latitude", "Longitude", "Link_ID"}
         IN  IF "Time" \notin cols1
             THEN EnrichRaised("KeyError")
             ELSE IF ElevationSupplied(elevation_data, lon_elev, lat_elev)
             THEN [status |-> "returned", error |-> "",
                   columns |-> cols1 \cup {"Hour", "Day", "Elevation"},
                   rows |-> [k \in DOMAIN timed |->
                               WithColumns(timed[k],
                                   [Elevation |->
                                       NearestElevation(timed[k].Longitude,
                                                        timed[k].Latitude)])]]
             ELSE [status |-> "returned", error |-> "",
                   columns |-> cols1 \cup {"Hour", "Day"},
                   rows |-> timed]

(* Inputs *)

\* a frame of get_data: row k was measured at hour k
Frames ==
    UNION {[1..n -> [IP : EnrichIPs, Temperature_MW : {Num(1), NaN}]] : n \in 0..MaxRows}

WithTime(frame) ==
    [k \in DOMAIN frame |->
        [IP |-> frame[k].IP, Time |-> k, Temperature_MW |-> frame[k].Temperature_MW]]

ElevationArguments ==
    [elevation_data : {"array", "None"}, lon_elev : {"array", "None"},
     lat_elev : {"array", "None"}]

InitEnrich ==
    /\ \E frame \in Frames, db \in [EnrichIPs -> LookupOutcomes],
          elev \in ElevationArguments, cols \in {FrameColumns, {}} :
          /\ cols = {} => frame = <<>>
          /\ enrich_in = [df |-> WithTime(frame), columns |-> cols, db |-> db,
                          elevation |-> elev]
    /\ epc = "ready" /\ metadata = <<>> /\ enrich_out = NoEnrichOut
    /\ AnomalyOff /\ RoundOff /\ InterpOff /\ GetDataOff /\ RescaleOff

EnrichFrame ==
    UNCHANGED enrich_in
    /\ UNCHANGED <<anomalyVars, roundVars, interpVars, getDataVars, rescaleVars>>

\* latitudes, longitudes, azimuths, links = db_ops.get_metadata(df) (line 237)
CallGetMetadata ==
    /\ epc = "ready"
    /\ metadata' = get_metadata(enrich_in.df, enrich_in.db)
    /\ epc' = "metadata"
    /\ UNCHANGED enrich_out
    /\ EnrichFrame

\* df = prepare_data(df, latitudes, longitudes, azimuths, links, ...) (line 239)
CallPrepareData ==
    /\ epc = "metadata"
    /\ enrich_out' = prepare_data(enrich_in.df, enrich_in.columns,
                                  metadata.latitudes, metadata.longitudes,
                                  metadata.azimuths, metadata.links,
                                  enrich_in.elevation.elevation_data,
                                  enrich_in.elevation.lon_elev,
                                  enrich_in.elevation.lat_elev)
    /\ epc' = enrich_out'.status
    /\ UNCHANGED metadata
    /\ EnrichFrame

NextEnrich == CallGetMetadata \/ CallPrepareData

SpecEnrich == InitEnrich /\ [][NextEnrich]_vars

-----------------------------------------------------------------------------
(* Claims about anomaly_detection, checked under SpecAnomaly               *)

Range(s) == {s[k] : k \in DOMAIN s}

\* the uptime counter of sensor ip decreases between two of its records that
\* are successive in time
UptimeDecreases(batch, ip) ==
    \E a \in Range(batch), b \in Range(batch) :
        /\ a.ip = ip /\ b.ip = ip /\ a.time < b.time
        /\ ~\E c \in Range(batch) : c.ip = ip /\ a.time < c.time /\ c.time < b.time
        /\ b.uptime < a.uptime

SteadyRecords == {r \in Range(df_in) : ~UptimeDecreases(df_in, r.ip)}

\* C1: when the batch has the Uptime and IP columns, no record of a sensor
\* whose uptime counter decreases between two records successive in time is
\* returned, whatever the combine_mode, and the temporal stage leaves exactly
\* the records of the other sensors: every record of a sensor with a decrease
\* is removed and no record of a sensor without one.
C1_UptimeDecreaseRemovesSensor ==
    (apc = "returned" /\ {"Uptime", "IP"} \subseteq columns) =>
        /\ \A r \in Range(out.clean) : ~UptimeDecreases(df_in, r.ip)
        /\ Range(out.temporal) = SteadyRecords
        /\ Len(out.temporal) = Cardinality(SteadyRecords)
        /\ out.removed = Len(df_in) - Cardinality(SteadyRecords)

\* sensor A has two records with a decreasing counter and is gone, sensor B has
\* two records with a counter that does not decrease and keeps both
C1_Witness ==
    /\ apc = "returned"
    /\ {"Uptime", "IP"} \subseteq columns
    /\ UptimeDecreases(df_in, "A")
    /\ ~UptimeDecreases(df_in, "B")
    /\ Cardinality({r \in Range(df_in) : r.ip = "A"}) = 2
    /\ Cardinality({r \in Range(df_in) : r.ip = "B"}) = 2
    /\ {r \in Range(df_in) : r.ip = "B"} \subseteq Range(out.clean)
    /\ \A r \in Range(out.clean) : r.ip /= "A"

IsRemoved(k) == out.temporal[k] \notin Range(out.clean)

\* C2: a record that survives the temporal stage is removed iff its combined
\* flag is true: global OR local under 'union', global AND local under
\* 'intersection'; nothing else is returned.
C2_RemovedIffCombinedFlag ==
    apc = "returned" =>
        /\ Range(out.clean) \subseteq Range(out.temporal)
        /\ params.combine_mode = "union" =>
              \A k \in DOMAIN out.temporal : IsRemoved(k) <=> (out.g[k] \/ out.l[k])
        /\ params.combine_mode = "intersection" =>
              \A k \in DOMAIN out.temporal : IsRemoved(k) <=> (out.g[k] /\ out.l[k])

\* a record flagged by the global test alone is retained under 'intersection'
C2_Witness ==
    /\ apc = "returned"
    /\ params.combine_mode = "intersection"
    /\ \E k \in DOMAIN out.temporal : out.g[k] /\ ~out.l[k] /\ ~IsRemoved(k)

\* the same call with the other combine_mode
WithMode(m) ==
    IF params.combine_mode = m THEN out
    ELSE anomaly_detection(df_in, columns, [params EXCEPT !.combine_mode = m])

RemovedFromInput(o) == Range(df_in) \ Range(o.clean)

\* C3: for the same batch and thresholds, what 'intersection' removes is a
\* subset of what 'union' removes, and
\* |clean(union)| <= |clean(intersection)| <= |input|.
C3_IntersectionRemovesSubset ==
    apc = "returned" =>
        LET u == WithMode("union")
            i == WithMode("intersection")
        IN  /\ u.status = "returned" /\ i.status = "returned"
            /\ RemovedFromInput(i) \subseteq RemovedFromInput(u)
            /\ Len(u.clean) <= Len(i.clean)
            /\ Len(i.clean) <= Len(df_in)

\* 'intersection' removes a record flagged by both tests, 'union' removes more
C3_Witness ==
    /\ apc = "returned"
    /\ params.combine_mode = "union"
    /\ LET i == WithMode("intersection")
       IN  /\ \E k \in DOMAIN i.combined : i.combined[k]
           /\ Len(out.clean) < Len(i.clean)
           /\ Len(i.clean) < Len(df_in)

\* the other records within radius_km of record k, among those the temporal
\* stage left
OthersInRadius(k) ==
    {j \in DOMAIN out.temporal \ {k} :
        KmPerDegree * KmPerDegree * DistSq(out.temporal[j], out.temporal[k])
          < params.radius_km * params.radius_km
              * CoordUnitsPerDegree * CoordUnitsPerDegree}

TooFewNeighbors(k) == Cardinality(OthersInRadius(k)) < params.min_neighbors

SumSquares(xs) == SumSeq([k \in DOMAIN xs |-> xs[k] * xs[k]])
VarianceTimesNN1(xs) == Len(xs) * SumSquares(xs) - SumSeq(xs) * SumSeq(xs)
ZDefined(xs) == Len(xs) >= 2 /\ VarianceTimesNN1(xs) > 0
ZSqLeft(xs, x) ==
    (Len(xs) * x - SumSeq(xs)) * (Len(xs) * x - SumSeq(xs)) * (Len(xs) - 1)
        * params.z_den * params.z_den
ZSqRight(xs) == params.z_num * params.z_num * Len(xs) * VarianceTimesNN1(xs)

TemperatureDeviates(batch, k) ==
    ZDefined(TempsOf(batch)) /\ ZSqLeft(TempsOf(batch), batch[k].temp) > ZSqRight(TempsOf(batch))
ElevationWithin(batch, k) ==
    ZDefined(ElevsOf(batch)) /\ ZSqLeft(ElevsOf(batch), batch[k].elev) <= ZSqRight(ElevsOf(batch))

\* C5: the global flag of a record is true iff |z(temperature)| > z_threshold
\* and |z(elevation)| <= z_threshold, the means and standard deviations being
\* those of the records the temporal stage left.
C5_GlobalFlagIsZTest ==
    apc = "returned" =>
        /\ \A k \in DOMAIN out.temporal :
              out.g[k] <=> (TemperatureDeviates(out.temporal, k)
                              /\ ElevationWithin(out.temporal, k))
        /\ out.num_global_anomalies =
              Cardinality({k \in DOMAIN out.temporal :
                             TemperatureDeviates(out.temporal, k)
                               /\ ElevationWithin(out.temporal, k)})

\* the temporal stage removed a sensor, a record left is flagged, and the same
\* record would not be with the statistics of the whole input; another record
\* deviates in temperature and in elevation and is not flagged
C5_Witness ==
    /\ apc = "returned"
    /\ out.removed > 0
    /\ \E k \in DOMAIN out.temporal :
          /\ out.g[k]
          /\ \E j \in DOMAIN df_in :
                /\ df_in[j] = out.temporal[k]
                /\ ~TemperatureDeviates(df_in, j)

\* C6: anomaly_detection raises only when a required column is missing or the
\* combine_mode is unknown; otherwise it returns, and a missing Uptime or IP
\* column only skips the temporal stage.
C6_RaisesOnlyForColumnsOrMode ==
    apc \in {"returned", "raised"} =>
        /\ apc = "raised" <=>
              \/ \E c \in Range(RequiredColumns) : c \notin columns
              \/ params.combine_mode \notin CombineModes
        /\ (apc = "returned" /\ ~({"Uptime", "IP"} \subseteq columns)) =>
              /\ out.temporal = df_in
              /\ out.removed = 0

\* the sum of the temperatures of the records of batch at the positions S
RECURSIVE TempSum(_, _)
TempSum(batch, S) ==
    IF S = {} THEN 0
    ELSE LET j == CHOOSE x \in S : TRUE
         IN  batch[j].temp + TempSum(batch, S \ {j})

\* |temp(k) - mean| compared with residual_threshold, the mean being that of
\* the temperatures of the other records within the radius (c of them, c > 0):
\* both sides multiplied by c
ResidualTimesCount(k) ==
    LET nb == OthersInRadius(k)
    IN  Abs(Cardinality(nb) * out.temporal[k].temp - TempSum(out.temporal, nb))
ThresholdTimesCount(k) ==
    params.residual_threshold * Cardinality(OthersInRadius(k))

EnoughNeighbors(k) == Cardinality(OthersInRadius(k)) >= params.min_neighbors

\* C21: a record with at least min_neighbors other records within the radius
\* has its local flag set iff the absolute difference between its temperature
\* and the mean temperature of exactly those records (itself and the records
\* beyond the radius left out, globally flagged records included) is strictly
\* greater than residual_threshold; a difference equal to the threshold does
\* not flag.
C21_LocalFlagIsStrictResidualTest ==
    apc = "returned" =>
        \A k \in DOMAIN out.temporal :
            EnoughNeighbors(k) =>
                /\ out.l[k] <=> ResidualTimesCount(k) > ThresholdTimesCount(k)
                /\ ResidualTimesCount(k) = ThresholdTimesCount(k) => ~out.l[k]

\* an evaluated record whose temperature is exactly residual_threshold away
\* from the mean of its neighbours, and is not flagged
C21_Witness ==
    /\ apc = "returned"
    /\ \E k \in DOMAIN out.temporal :
          /\ EnoughNeighbors(k)
          /\ params.residual_threshold > 0
          /\ ResidualTimesCount(k) = ThresholdTimesCount(k)
          /\ ~out.l[k]

\* an evaluated and locally flagged record with a globally flagged record
\* among its neighbours, a record beyond the radius, and a mean that differs
\* from the one over all other records
C21_MeanOverNeighboursOnly ==
    /\ apc = "returned"
    /\ \E k \in DOMAIN out.temporal :
          LET nb  == OthersInRadius(k)
              all == DOMAIN out.temporal \ {k}
          IN  /\ EnoughNeighbors(k)
              /\ out.l[k]
              /\ \E j \in nb : out.g[j]
              /\ all \ nb /= {}
              /\ ~(Abs(Cardinality(all) * out.temporal[k].temp
                         - TempSum(out.temporal, all))
                     > params.residual_threshold * Cardinality(all))

Max2(a, b) == IF a >= b THEN a ELSE b
Min2(a, b) == IF a <= b THEN a ELSE b

\* C22: the counts of the summary of one call agree with what it returns:
\* |output| = |input| - uptime_removed - combined_anomalies;
\* combined_anomalies <= global_anomalies + local_anomalies, and
\* combined_anomalies >= max(global, local) under 'union',
\* combined_anomalies <= min(global, local) under 'intersection';
\* local_anomalies + unevaluated <= |input| - uptime_removed;
\* and uptime_removed = 0 iff restarts = 0.
C22_SummaryCountsConsistent ==
    apc = "returned" =>
        /\ Len(out.clean) = Len(df_in) - out.removed - out.total_combined
        /\ out.total_combined
              <= out.num_global_anomalies + out.total_local_anomalies
        /\ params.combine_mode = "union" =>
              out.total_combined
                >= Max2(out.num_global_anomalies, out.total_local_anomalies)
        /\ params.combine_mode = "intersection" =>
              out.total_combined
                <= Min2(out.num_global_anomalies, out.total_local_anomalies)
        /\ out.total_local_anomalies + out.unevaluated
              <= Len(df_in) - out.removed
        /\ out.removed = 0 <=> out.restarts = 0

\* a call under 'union' that drops a restarted sensor, leaves a record
\* unevaluated, and flags one record by both tests and another by the local
\* test alone
C22_Witness ==
    /\ apc = "returned"
    /\ params.combine_mode = "union"
    /\ out.restarts > 0 /\ out.removed > out.restarts
    /\ out.unevaluated > 0
    /\ out.num_global_anomalies > 0
    /\ out.total_local_anomalies > out.num_global_anomalies
    /\ out.total_combined
          < out.num_global_anomalies + out.total_local_anomalies
    /\ Len(out.clean) > 0
    /\ Len(out.clean) < Len(df_in) - out.removed

\* a call under 'intersection' in which fewer records are removed than either
\* test flags
C22_WitnessIntersection ==
    /\ apc = "returned"
    /\ params.combine_mode = "intersection"
    /\ out.total_combined
          < Min2(out.num_global_anomalies, out.total_local_anomalies)

-----------------------------------------------------------------------------
(* Claims about the hourly loop, checked under SpecRound and FairSpecRound *)

\* the round that has just been called or has returned raised in a stage
RoundRaised == cur.raised

\* process_data_round has returned and the loop is at or past the wait
RoundReturned == round >= 1 /\ rpc \in {"wait", "call"}

\* C7: whatever stage of a round raises, process_data_round never lets the
\* exception out: once it has returned the error is logged, the working
\* dataset is released and the end of the round is logged; and the loop
\* then waits and in the end calls the next round.
C7_FailedRoundIsContained ==
    /\ [](rpc # "crashed")
    /\ []((RoundReturned /\ RoundRaised) =>
            /\ cur.stage = "Idle"
            /\ cur.error_logged
            /\ cur.end_logged
            /\ round_df = "unbound")
    /\ \A n \in 1..(MaxRounds - 1) :
          (round = n /\ RoundRaised) ~> (round = n + 1)

\* a round that raised in an output step was logged and closed, and the next
\* round has been called
C7_Witness ==
    /\ round >= 2
    /\ cur.stage = "get_data"
    /\ prev.raised /\ prev.error_logged /\ prev.end_logged
    /\ prev.outputs = {"realtime_writer", "save_parameters"}

\* the round before the running one wrote all its outputs or was abandoned
PreviousRoundOver ==
    /\ prev.stage = "Idle"
    /\ prev.end_logged
    /\ prev.raised \/ prev.outputs = OutputSteps

\* C8: rounds never overlap: at most one round is in a stage other than
\* Idle, and a round after the first is in a stage only when the round
\* before it has done all three output steps or has been abandoned.
C8_RoundsNeverOverlap ==
    /\ ~(cur.stage # "Idle" /\ prev.stage # "Idle")
    /\ (round >= 2 /\ cur.stage # "Idle") => PreviousRoundOver

\* a round in its first stage after a round that did all its output steps
C8_Witness ==
    /\ round >= 2
    /\ cur.stage = "get_data"
    /\ ~prev.raised
    /\ prev.outputs = OutputSteps

\* C9: one round per hour boundary: a round after the first starts at the
\* hour boundary wait_for_next_hour has waited for, not before it, and no
\* two rounds are started for the same boundary.
C9_OneRoundPerHourBoundary ==
    round >= 2 =>
        /\ cur.start >= cur.boundary
        /\ cur.boundary # prev.boundary

-----------------------------------------------------------------------------
(* Claims about spatial_interpolation, checked under SpecInterp            *)

\* the returned coordinate of a cell lies strictly inside a polygon of the region
CellInside(c) ==
    \E g \in DOMAIN interp_in.rep :
        contains(interp_in.rep[g], <<interp_out.grid_x[c], interp_out.grid_y[c]>>)

\* the elevation the model is given for a cell: the raster's where it covers
\* the cell, the samples' mean elevation, which is the raster's too, elsewhere
CellElevation(c) == Num(interp_in.raster.elevation)

\* what the fitted model predicts at the returned coordinate of a cell
CellPrediction(c) ==
    Num(interp_in.rk.c + interp_in.rk.t * CellElevation(c).v
        + interp_in.rk.a * interp_out.grid_x[c]
        + interp_in.rk.b * interp_out.grid_y[c])

\* C10: in the grid spatial_interpolation returns, a cell outside the region
\* is NaN, a cell inside holds the model's prediction for that cell, and the
\* coordinate arrays and the temperature grid have one shape.
C10_MaskedGrid ==
    ipc = "returned" =>
        /\ DOMAIN interp_out.grid_x = DOMAIN interp_out.grid_y
        /\ DOMAIN interp_out.grid_y = DOMAIN interp_out.grid_z
        /\ DOMAIN interp_out.grid_z = GridShape
        /\ \A c \in DOMAIN interp_out.grid_z :
              /\ ~CellInside(c) => interp_out.grid_z[c] = NaN
              /\ CellInside(c) => interp_out.grid_z[c] = CellPrediction(c)

\* a returned grid with a cell inside and a cell outside the region whose
\* predictions differ from cell to cell
C10_Witness ==
    /\ ipc = "returned"
    /\ \E c, d \in DOMAIN interp_out.grid_z :
          /\ CellInside(c) /\ ~CellInside(d)
          /\ ~CellInside(<<c[2], c[1]>>)
          /\ interp_out.grid_z[c] = CellPrediction(c)
          /\ interp_out.grid_z[c] # NaN
          /\ CellPrediction(c) # CellPrediction(<<c[2], c[1]>>)

\* the selectors the if/elif chain of the source has a branch for
AcceptedSelectors == {"linear", "random_forest", "gradient_boosting", "svr"}

SelectorRejected ==
    /\ ipc = "raised"
    /\ interp_out.error = "ValueError"
    /\ "regression_model" \notin Range(interp_out.steps)

\* C11: a selector outside the accepted set makes spatial_interpolation raise
\* a ValueError before a regression-kriging model is constructed or fitted
\* and before any prediction on the grid, and no grid is returned.
C11_UnknownSelectorRaisesBeforeFit ==
    (ipc # "ready" /\ interp_in.regression_model_type \notin AcceptedSelectors) =>
        /\ SelectorRejected
        /\ Range(interp_out.steps) \cap {"rk", "fit", "grid_elev", "predict", "where"} = {}
        /\ interp_out.grid_x = <<>> /\ interp_out.grid_y = <<>>
        /\ interp_out.grid_z = <<>>

\* the call with the selector 'unknown' and samples that could have been fitted
C11_Witness ==
    /\ ipc = "raised"
    /\ interp_in.regression_model_type = "unknown"
    /\ interp_in.fit = "fits"
    /\ Len(valid_points(interp_in.df)) > 0
    /\ interp_out.error = "ValueError"

\* C12 as stated: an unrecognized selector is rejected before the coordinate
\* mesh, the inclusion mask and the elevation interpolation are computed.
C12_RejectedBeforeGrid ==
    (ipc # "ready" /\ interp_in.regression_model_type \notin AcceptedSelectors) =>
        /\ SelectorRejected
        /\ Range(interp_out.steps) \cap {"grid", "mask", "valid_elev", "grid_elev"} = {}

\* C12 amended: an unrecognized selector is rejected after the coordinate
\* mesh, the inclusion mask and the samples' elevation have been computed,
\* and before the model, the grid's elevation and the prediction.
C12_RejectedAfterGridBeforeModel ==
    (ipc # "ready" /\ interp_in.regression_model_type \notin AcceptedSelectors) =>
        /\ SelectorRejected
        /\ interp_out.steps = <<"grid", "mask", "valid_points", "valid_elev">>

C12_Witness ==
    /\ ipc = "raised"
    /\ interp_in.regression_model_type = "unknown"
    /\ Range(interp_out.steps) = {"grid", "mask", "valid_points", "valid_elev"}

\* the call got past the choice of the regression model
SelectorAccepted == ipc # "ready" /\ "regression_model" \in Range(interp_out.steps)

\* C13 as stated: exactly linear, random_forest, gradient_boosting and
\* kernel_svr select a model and let the interpolation proceed; every other
\* selector is rejected with a ValueError.
C13_AcceptsKernelSvr ==
    ipc # "ready" =>
        IF interp_in.regression_model_type
              \in {"linear", "random_forest", "gradient_boosting", "kernel_svr"}
        THEN SelectorAccepted
        ELSE SelectorRejected

\* C13 amended: exactly linear, random_forest, gradient_boosting and svr
\* select a model and let the interpolation proceed; every other selector,
\* kernel_svr among them, is rejected with a ValueError.
C13_AcceptsSvr ==
    ipc # "ready" =>
        IF interp_in.regression_model_type
              \in {"linear", "random_forest", "gradient_boosting", "svr"}
        THEN SelectorAccepted
        ELSE SelectorRejected

\* the selector svr has gone on to a fitted model and a returned grid
C13_Witness ==
    /\ ipc = "returned"
    /\ interp_in.regression_model_type = "svr"
    /\ "fit" \in Range(interp_out.steps)
    /\ interp_out.grid_z # <<>>

-----------------------------------------------------------------------------
(* Further claims about the hourly loop                                    *)

\* C14: when get_data has used up its attempts and returned the empty
\* frame, the later stages of the round run on it and none of them raises,
\* so the round does not take the except branch.
C14_EmptyAcquisitionIsQuiet ==
    (rpc = "in_round" /\ round_df = "empty") =>
        /\ ~cur.raised
        /\ cur.stage # "except"

\* the round is past its try block
RoundClosing == cur.stage \in {"finally", "end_log", "Idle"}

\* C16: the three output steps are independent: a failure in realtime_writer
\* or in save_parameters is handled inside the step and never keeps the
\* steps after it from running.
C16_OutputStepsIndependent ==
    /\ cur.failed \notin {"realtime_writer", "save_parameters"}
    /\ (round >= 1 /\ RoundClosing /\ cur.recovered # {} /\ cur.failed = "") =>
          cur.outputs = OutputSteps

\* the phase of the round a stage belongs to
Phase(stage) ==
    CASE stage = "get_data" -> "Acquiring"
      [] stage \in {"get_metadata", "prepare_data", "collect_data_summary"} -> "Enriching"
      [] stage = "anomaly_detection" -> "Filtering"
      [] stage = "temperature_predict" -> "Predicting"
      [] stage = "spatial_interpolation" -> "Interpolating"
      [] stage \in OutputSteps -> "Persisting/Rendering"
      [] stage \in {"except", "finally", "end_log"} -> "Closing"
      [] OTHER -> "Idle"

PhaseOrder ==
    <<"Acquiring", "Enriching", "Filtering", "Predicting", "Interpolating",
      "Persisting/Rendering", "Closing", "Idle">>

PhaseRank(stage) == CHOOSE k \in DOMAIN PhaseOrder : PhaseOrder[k] = Phase(stage)

\* one step of a round: the phase stays or moves to the next one, or the
\* stage raised and the round is closing; a new round starts from Idle
InOrder ==
    IF round' # round
    THEN cur.stage = "Idle" /\ Phase(cur'.stage) = "Acquiring"
    ELSE \/ cur'.stage = cur.stage /\ cur'.raised = cur.raised
         \/ /\ ~cur.raised /\ ~cur'.raised
            /\ cur'.stage # cur.stage
            /\ PhaseRank(cur'.stage) \in {PhaseRank(cur.stage), PhaseRank(cur.stage) + 1}
            /\ Phase(cur'.stage) = "Closing" => Phase(cur.stage) = "Persisting/Rendering"
         \/ /\ ~cur.raised /\ cur'.raised
            /\ cur'.stage = "except"
         \/ /\ Phase(cur.stage) = "Closing"
            /\ cur'.raised = cur.raised
            /\ PhaseRank(cur'.stage) \in {PhaseRank(cur.stage), PhaseRank(cur.stage) + 1}

\* C20: within a round the phases are entered in the order Acquiring,
\* Enriching, Filtering, Predicting, Interpolating, Persisting/Rendering,
\* each only after the one before it returned without raising and none
\* twice; once a stage has raised no later stage runs; and every round ends
\* back in Idle.
C20_StagesInOrder ==
    /\ [][InOrder]_vars
    /\ [](cur.raised => Phase(cur.stage) \in {"Closing", "Idle"})
    /\ [](rpc = "in_round" => cur.stage # "Idle")
    /\ (cur.stage # "Idle") ~> (cur.stage = "Idle")

\* a round that went through every stage and is back in Idle
C20_Witness ==
    /\ round >= 1
    /\ rpc = "wait"
    /\ cur.stage = "Idle"
    /\ ~cur.raised
    /\ cur.outputs = OutputSteps
    /\ cur.end_logged

-----------------------------------------------------------------------------
(* Claims about get_data, checked under FairSpecGetData                    *)

\* the attempts among the first n that would get records
GoodAttempts == {k \in 1..retry_count : influx[k] = "records"}

\* C17: get_data(retry_count = n) with n >= 1 makes at most n attempts,
\* stops at the first one that succeeds and returns its data, returns the
\* empty frame without raising when all n fail, and always terminates.
C17_BoundedRetries ==
    /\ [](retry_count >= 1 => (attempt <= retry_count /\ gpc # "raised"))
    /\ []((retry_count >= 1 /\ gpc = "returned") =>
            IF GoodAttempts # {}
            THEN /\ df_final = "data"
                 /\ attempt = MinOf(GoodAttempts)
            ELSE /\ df_final = "empty"
                 /\ attempt = retry_count)
    /\ (retry_count >= 1) => <>(gpc = "returned")

\* the second of three attempts succeeded after a failed first, and the
\* third, which would have succeeded too, was not made
C17_Witness ==
    /\ gpc = "returned"
    /\ retry_count = 3
    /\ influx[1] = "error" /\ influx[2] = "records" /\ influx[3] = "records"
    /\ attempt = 2
    /\ df_final = "data"

-----------------------------------------------------------------------------
(* Claims about get_metadata and prepare_data, checked under SpecEnrich    *)

MetadataLists ==
    {metadata.latitudes, metadata.longitudes, metadata.azimuths, metadata.links}

\* C15: a lookup that fails for one sensor (no link, no site, or a query
\* that raises) leaves that row's geolocation missing and nothing else:
\* get_metadata returns four lists with one entry for each row of the frame,
\* and prepare_data then drops the rows concerned instead of raising.
C15_LookupFailureDegradesOneRow ==
    /\ epc # "ready" => \A l \in MetadataLists : Len(l) = Len(enrich_in.df)
    /\ (epc = "raised" => enrich_in.columns = {})

GeoColumns == {"Azimuth", "Latitude", "Longitude", "Link_ID"}

\* what the store holds for the sensor of input row k
Stored(k) == Lookup(enrich_in.df[k].IP, enrich_in.db[enrich_in.df[k].IP])

\* input row k has all four geolocation values and its measurement
Complete(k) ==
    /\ \A g \in GeoColumns : ~Stored(k)[g].nan
    /\ ~enrich_in.df[k].Temperature_MW.nan

\* the hours of the input rows that are complete, in the frame's order
CompleteTimes ==
    LET hours == [k \in DOMAIN enrich_in.df |-> enrich_in.df[k].Time]
    IN  SelectSeq(hours, LAMBDA h : Complete(h))

AllElevationArguments ==
    /\ enrich_in.elevation.elevation_data = "array"
    /\ enrich_in.elevation.lon_elev = "array"
    /\ enrich_in.elevation.lat_elev = "array"

\* C18: every record prepare_data returns has azimuth, latitude, longitude
\* and link id; the records returned are the input rows that had all four
\* (and their measurement), in order; and they have an Elevation exactly
\* when the elevation grid and both its coordinate arrays were passed.
C18_PreparedRecordsComplete ==
    epc = "returned" =>
        /\ \A k \in DOMAIN enrich_out.rows :
              /\ \A g \in GeoColumns : ~enrich_out.rows[k][g].nan
              /\ ("Elevation" \in DOMAIN enrich_out.rows[k]) <=> AllElevationArguments
        /\ [k \in DOMAIN enrich_out.rows |-> enrich_out.rows[k].Time] = CompleteTimes
        /\ ("Elevation" \in enrich_out.columns) <=> AllElevationArguments

\* of two rows with their measurements the one without a site was dropped
\* and the other came back with its elevation
C18_Witness ==
    /\ epc = "returned"
    /\ Len(enrich_in.df) = 2
    /\ \A k \in DOMAIN enrich_in.df : ~enrich_in.df[k].Temperature_MW.nan
    /\ enrich_in.db[enrich_in.df[1].IP] = "no_site"
    /\ enrich_in.db[enrich_in.df[2].IP] = "found"
    /\ Len(enrich_out.rows) = 1
    /\ enrich_out.rows[1].Time = 2
    /\ "Elevation" \in DOMAIN enrich_out.rows[1]

-----------------------------------------------------------------------------
(* Claim about the rescaled batch, checked under SpecRescale               *)

\* the records of a result that have the global flag, by sensor and time
GloballyFlagged(o) ==
    {<<o.temporal[k].ip, o.temporal[k].time>> : k \in {j \in DOMAIN o.g : o.g[j]}}

\* C19: replacing every temperature t of a batch by a*t + b with a > 0, the
\* elevations and coordinates staying as they are, leaves the set of records
\* with a global flag as it was.
C19_GlobalFlagsAffineInvariant ==
    (apc # "ready" /\ rescale # <<>>) =>
        /\ out.status = "returned"
        /\ out_rescaled.status = "returned"
        /\ GloballyFlagged(out_rescaled) = GloballyFlagged(out)

\* a batch doubled and shifted in which one record has the flag and another
\* has not, before and after
C19_Witness ==
    /\ apc = "returned"
    /\ rescale # <<>>
    /\ rescale.a = 2 /\ rescale.b # 0
    /\ GloballyFlagged(out) # {}
    /\ GloballyFlagged(out_rescaled) # {}
    /\ Cardinality(GloballyFlagged(out_rescaled)) < Len(out_rescaled.temporal)

=============================================================================
